---- MODULE Spec2Model ----
(***************************************************************************)
(* Model of hooks/session-start.py: the repository synchronization driver  *)
(* initialize_repository, together with the part of git's behaviour that   *)
(* the driver observes through run_git_command (exit status and stdout).   *)
(*                                                                         *)
(* A run of initialize_repository is one action: the function is           *)
(* sequential and nothing else runs while it does.  The exit status of the *)
(* commands that change something (clone, fetch, checkout, merge,          *)
(* remote add) is an input of the action; the exit status and the stdout   *)
(* of the queries (rev-parse, show-ref, merge-base, remote get-url) are a  *)
(* function of the clone on disk.                                          *)
(*                                                                         *)
(* Every call of run_git_command in the driver passes check=False, so      *)
(* subprocess.run raises nothing on a non-zero exit and the success flag   *)
(* the driver tests is True whatever git's exit status was (Success).      *)
(* The exit status git really returned is kept in the command log cmds.    *)
(***************************************************************************)
EXTENDS Integers, Sequences, FiniteSets, TLC

(* ------------------------------ bounds -------------------------------- *)

\* Commits are 1..MaxCommit.
MaxCommit == 4

\* Number of successive runs of the driver on the same cache directory.
MaxRuns == 2

(* --------------------------- commit history --------------------------- *)

\* The value a ref has when it does not exist; as the output of a query,
\* the empty stdout of a rev-parse or merge-base that exits non-zero.
NoCommit == 0

\* What rev-parse @ prints on stdout when HEAD resolves to no commit: the
\* argument itself, "@".
AtSign == 0 - 1

Commits == 1..MaxCommit

CommitOrNone == 0..MaxCommit

\* The history graph: commits 1 and 2 are roots of unrelated histories,
\* commits 3 and 4 are two children of 2, 5 and 6 two children of 3, ...
Parent(c) == IF c <= 2 THEN NoCommit ELSE (c + 1) \div 2

RECURSIVE Ancestors(_)
\* The commits reachable from c, c included.
Ancestors(c) == IF c = NoCommit THEN {} ELSE {c} \cup Ancestors(Parent(c))

IsAncestor(a, b) == a \in Ancestors(b)

\* git merge-base a b: the most recent common ancestor, NoCommit when the
\* histories are unrelated.  Commit numbers grow along every history.
MergeBase(a, b) ==
    LET common == Ancestors(a) \cap Ancestors(b)
    IN  IF common = {} THEN NoCommit
        ELSE CHOOSE c \in common : \A d \in common : d <= c

(* ------------------------------ names --------------------------------- *)

DEFAULT_BRANCH == "main"

Branches == {DEFAULT_BRANCH, "dev"}

Remotes == {"origin", "upstream"}

RepoNames == {"core", "extra"}

\* What rev-parse --abbrev-ref HEAD prints when HEAD is detached.
Detached == "HEAD"

\* The empty stdout of rev-parse --abbrev-ref HEAD outside a repository.
NoBranch == ""

NoRefs == [b \in Branches |-> NoCommit]

(* ----------------------------- the state ------------------------------ *)

VARIABLES
    server,       \* the repository at repo_url: branch -> tip (NoCommit: no such branch)
    clone,        \* the clone in the cache directory (see AbsentClone, Cloned)
    repo_name,    \* repo['name']
    repo_branch,  \* repo['branch']
    updated,      \* the returned pair and messages of the last run
    behind,
    messages,
    cmds,         \* the git commands the last run issued, in order, with their exit status
    locals,       \* local variables of the last run that the evaluator decided on
    runs,         \* number of runs so far
    prev,         \* the run before the last: what it returned, whether a command of
                  \* it failed, whether it was a clone, where it left HEAD, whether
                  \* the server changed between it and the last run
    remoteChanged, \* whether the server changed since the end of the last run
    aborted,      \* the last run did not return: run_git_command ended the process
    main          \* main(): where it is, SKILL_REPOS, the loop index, what it gathered

vars == <<server, clone, repo_name, repo_branch, updated, behind, messages,
          cmds, locals, runs, prev, remoteChanged, aborted, main>>


(* ------------------- git, as the driver observes it ------------------- *)

\* The remote repository's own HEAD: the branch a fresh clone is on.
ServerHead == "main"

\* No .git directory in the cache directory.
AbsentClone ==
    [exists |-> FALSE, head |-> ServerHead, detachedAt |-> NoCommit,
     heads |-> NoRefs, track |-> [b \in Branches |-> "none"],
     hasUpstream |-> FALSE, rrefs |-> [r \in Remotes |-> NoRefs]]

\* git clone <url> <dir>, exit 0: every branch of the server becomes a
\* remote-tracking ref of origin, the server's HEAD branch is checked out
\* and tracks origin.
GitClone(srv) ==
    [exists |-> TRUE, head |-> ServerHead, detachedAt |-> NoCommit,
     heads |-> [b \in Branches |-> IF b = ServerHead THEN srv[b] ELSE NoCommit],
     track |-> [b \in Branches |-> IF b = ServerHead THEN "origin" ELSE "none"],
     hasUpstream |-> FALSE,
     rrefs |-> [r \in Remotes |-> IF r = "origin" THEN srv ELSE NoRefs]]

\* git remote get-url upstream: exit 0 iff the remote is configured.
GitHasUpstreamRemote(c) == c.hasUpstream

\* git fetch <remote>: fails when the remote is not configured (origin
\* always is); on exit 0 the remote-tracking refs of that remote follow
\* the server; refs of branches deleted on the server are kept (no --prune).
GitFetch(c, r, srv, wanted) ==
    IF wanted /\ (r = "upstream" => c.hasUpstream)
    THEN [ok |-> TRUE,
          clone |-> [c EXCEPT !.rrefs[r] =
                       [b \in Branches |-> IF srv[b] # NoCommit THEN srv[b] ELSE @[b]]]]
    ELSE [ok |-> FALSE, clone |-> c]

\* The commit HEAD resolves to; NoCommit on an unborn branch.
HeadCommit(c) == IF c.head = Detached THEN c.detachedAt ELSE c.heads[c.head]

\* git rev-parse --abbrev-ref HEAD: the branch name, "HEAD" when detached;
\* fails when HEAD resolves to no commit, still printing "HEAD"; fails
\* printing nothing outside a repository.
GitCurrentBranch(c) ==
    IF ~c.exists THEN [ok |-> FALSE, out |-> NoBranch]
    ELSE IF HeadCommit(c) = NoCommit THEN [ok |-> FALSE, out |-> Detached]
    ELSE [ok |-> TRUE, out |-> c.head]

\* git show-ref --verify --quiet refs/heads/<b>
GitLocalBranchExists(c, b) == c.heads[b] # NoCommit

\* git show-ref --verify --quiet refs/remotes/<r>/<b>
GitRemoteBranchExists(c, r, b) == c.rrefs[r][b] # NoCommit

\* git rev-parse @: the commit id; on an unborn branch it fails and prints "@".
GitRevParseHead(c) ==
    IF HeadCommit(c) # NoCommit THEN [ok |-> TRUE, out |-> HeadCommit(c)]
    ELSE [ok |-> FALSE, out |-> AtSign]

\* The commit @{u} resolves to: the remote-tracking ref the current branch
\* is configured to track; NoCommit when detached, without tracking
\* configuration, or when the tracked ref does not exist.
UpstreamCommit(c) ==
    IF c.head = Detached THEN NoCommit
    ELSE IF c.track[c.head] = "none" THEN NoCommit
    ELSE c.rrefs[c.track[c.head]][c.head]

\* git rev-parse @{u}: the commit id; prints nothing when it fails.
GitRevParseUpstream(c) == [ok |-> UpstreamCommit(c) # NoCommit, out |-> UpstreamCommit(c)]

\* git merge-base @ @{u}: the commit id; prints nothing when it fails.
GitMergeBase(c) ==
    LET l == HeadCommit(c)
        u == UpstreamCommit(c)
        b == IF l = NoCommit \/ u = NoCommit THEN NoCommit ELSE MergeBase(l, u)
    IN  [ok |-> b # NoCommit, out |-> b]

\* git checkout <b>: switches to the local branch; without a local branch
\* of that name, creates one tracking the only remote that has the branch.
\* Exit status and the clone afterwards; wanted is the exit status when
\* git's own preconditions hold (a dirty work tree makes it non-zero).
GitCheckout(c, b, wanted) ==
    LET having == {r \in Remotes : c.rrefs[r][b] # NoCommit}
    IN  IF ~wanted \/ ~c.exists THEN [ok |-> FALSE, clone |-> c]
        ELSE IF c.heads[b] # NoCommit
             THEN [ok |-> TRUE, clone |-> [c EXCEPT !.head = b]]
        ELSE IF Cardinality(having) = 1
             THEN LET r == CHOOSE x \in having : TRUE
                  IN  [ok |-> TRUE,
                       clone |-> [c EXCEPT !.head = b, !.heads[b] = c.rrefs[r][b],
                                           !.track[b] = r]]
        ELSE [ok |-> FALSE, clone |-> c]

\* git checkout -b <b> <r>/<b>: creates the local branch at the
\* remote-tracking ref, tracking it, and switches to it; fails when the
\* branch exists or the start point does not.
GitCheckoutNew(c, b, r, wanted) ==
    IF wanted /\ c.heads[b] = NoCommit /\ c.rrefs[r][b] # NoCommit
    THEN [ok |-> TRUE,
          clone |-> [c EXCEPT !.head = b, !.heads[b] = c.rrefs[r][b], !.track[b] = r]]
    ELSE [ok |-> FALSE, clone |-> c]

\* git merge --ff-only @{u}: moves the current branch to its upstream when
\* the branch tip is an ancestor of it; any other case exits non-zero and
\* changes nothing.
GitMergeFfOnly(c, wanted) ==
    LET l == HeadCommit(c)
        u == UpstreamCommit(c)
    IN  IF wanted /\ l # NoCommit /\ u # NoCommit /\ IsAncestor(l, u)
        THEN [ok |-> TRUE, clone |-> [c EXCEPT !.heads[c.head] = u]]
        ELSE [ok |-> FALSE, clone |-> c]

\* git remote add upstream <url>: fails when the remote exists and outside
\* a repository.
GitRemoteAddUpstream(c, wanted) ==
    IF wanted /\ c.exists /\ ~c.hasUpstream
    THEN [ok |-> TRUE, clone |-> [c EXCEPT !.hasUpstream = TRUE]]
    ELSE [ok |-> FALSE, clone |-> c]

(* ------------------------- initialize_repository ---------------------- *)

\* The messages the claims are about; the repository and branch names they
\* are formatted with are kept as fields.
MsgFetching(name) == <<"Fetching latest changes for", name>>
MsgSwitching(name, from, to) == <<"Switching", name, from, to>>
MsgCreating(branch, remote) == <<"Creating local branch tracking", branch, remote>>
MsgBranchNotFound(branch, name) == <<"Warning: Branch not found for", branch, name>>
MsgUpdating(name) == <<"Updating repository to latest version", name>>
MsgUpdated(name) == <<"repository updated successfully", name>>
MsgFailedUpdate(name) == <<"Failed to update repository", name>>
MsgInitializing(name) == <<"Initializing repository", name>>
MsgInitialized(name) == <<"repository initialized at", name>>
MsgFailedClone(name) == <<"Failed to clone", name>>

\* Local variables of a run that has not reached the statement setting them.
NoLocals ==
    [remote_name |-> "origin", branch_read |-> FALSE, current_branch |-> Detached,
     evaluated |-> FALSE,
     success_local |-> FALSE, local_sha |-> NoCommit,
     success_remote |-> FALSE, remote_sha |-> NoCommit,
     success_base |-> FALSE, base_sha |-> NoCommit]

\* The function's frame on entry: messages = [], updated = behind = False.
Enter(c) ==
    [clone |-> c, messages |-> <<>>, updated |-> FALSE, behind |-> FALSE,
     cmds |-> <<>>, locals |-> NoLocals, exited |-> FALSE]

\* messages.append(m)
Say(r, m) == [r EXCEPT !.messages = Append(@, m)]

\* The success flag run_git_command(..., check=False) returns for a command
\* with the given exit status: subprocess.run(check=False) does not raise
\* CalledProcessError, so the flag is True also after a non-zero exit.
Success(exitOk) == TRUE

\* run_git_command: the working directory does not exist, subprocess.run
\* raises FileNotFoundError and the process ends with sys.exit(1).
Exit(r) == [r EXCEPT !.exited = TRUE]

\* git ran with these arguments and exited zero (ok) or non-zero.
Ran(r, args, ok) == [r EXCEPT !.cmds = Append(@, [args |-> args, ok |-> ok])]

\* Remote handle resolver: 'upstream' when the remote is configured, else 'origin'.
ResolveRemote(r) ==
    LET exitOk == GitHasUpstreamRemote(r.clone)
        success == Success(exitOk)
    IN  [Ran(r, <<"remote", "get-url", "upstream">>, exitOk)
            EXCEPT !.locals.remote_name = IF success THEN "upstream" ELSE "origin"]

\* run_git_command(['fetch', remote_name]): the result is ignored.
FetchRemote(r, srv, fetchOk) ==
    LET res == GitFetch(r.clone, r.locals.remote_name, srv, fetchOk)
    IN  [Ran(r, <<"fetch", r.locals.remote_name>>, res.ok) EXCEPT !.clone = res.clone]

\* run_git_command(['checkout', repo_branch]): the exit status is ignored.
CheckoutExisting(r, branch, checkoutOk) ==
    LET res == GitCheckout(r.clone, branch, checkoutOk)
    IN  [Ran(r, <<"checkout", branch>>, res.ok) EXCEPT !.clone = res.clone]

\* run_git_command(['checkout', '-b', repo_branch, remote/repo_branch]):
\* the exit status is ignored.
CheckoutTracking(r, branch, checkoutOk) ==
    LET res == GitCheckoutNew(r.clone, branch, r.locals.remote_name, checkoutOk)
    IN  [Ran(Say(r, MsgCreating(branch, r.locals.remote_name)),
             <<"checkout", "-b", branch, r.locals.remote_name>>, res.ok)
            EXCEPT !.clone = res.clone]

\* Mutant of SwitchBranch: the local branch is not looked for, the tracking
\* branch is created whenever the remote has the branch.
SwitchBranch_AlwaysCreate(r, name, branch, checkoutOk) ==
    LET remote == GitRemoteBranchExists(r.clone, r.locals.remote_name, branch)
        r2 == Ran(r, <<"show-ref", "refs/remotes", r.locals.remote_name, branch>>, remote)
    IN  IF Success(remote) THEN CheckoutTracking(r2, branch, checkoutOk)
        ELSE Say(r2, MsgBranchNotFound(branch, name))

\* show-ref of the local branch returned success: check the branch out;
\* else show-ref of the branch on the resolved remote returned success:
\* create a tracking branch; else append the warning.
SwitchBranch(r, name, branch, checkoutOk) ==
    LET local == GitLocalBranchExists(r.clone, branch)
        r1 == Ran(r, <<"show-ref", "refs/heads", branch>>, local)
        remote == GitRemoteBranchExists(r.clone, r.locals.remote_name, branch)
        r2 == Ran(r1, <<"show-ref", "refs/remotes", r.locals.remote_name, branch>>, remote)
    IN  IF Success(local) THEN CheckoutExisting(r1, branch, checkoutOk)
        ELSE IF Success(remote) THEN CheckoutTracking(r2, branch, checkoutOk)
        ELSE Say(r2, MsgBranchNotFound(branch, name))

\* Branch reconciler: read the current branch and switch if the read
\* returned success and its output differs from the desired branch.
ReconcileBranch(r, name, branch, checkoutOk) ==
    LET cur == GitCurrentBranch(r.clone)
        success == Success(cur.ok)
        r1 == [Ran(r, <<"rev-parse", "--abbrev-ref", "HEAD">>, cur.ok)
                 EXCEPT !.locals.branch_read = success,
                        !.locals.current_branch = cur.out]
    IN  IF success /\ cur.out # branch
        THEN SwitchBranch(Say(r1, MsgSwitching(name, cur.out, branch)),
                          name, branch, checkoutOk)
        ELSE r1

\* Mutant of FastForward: updated is not set after a successful merge.
FastForward_NoFlag(r, name, mergeOk) ==
    LET res == GitMergeFfOnly(r.clone, mergeOk)
        r1 == [Ran(Say(r, MsgUpdating(name)), <<"merge", "--ff-only", "@{u}">>, res.ok)
                 EXCEPT !.clone = res.clone]
    IN  IF Success(res.ok) THEN Say(r1, MsgUpdated(name))
        ELSE Say(r1, MsgFailedUpdate(name))

\* The fast-forward: merge --ff-only @{u}, updated = True when the call
\* returned success.
FastForward(r, name, mergeOk) ==
    LET res == GitMergeFfOnly(r.clone, mergeOk)
        r1 == [Ran(Say(r, MsgUpdating(name)), <<"merge", "--ff-only", "@{u}">>, res.ok)
                 EXCEPT !.clone = res.clone]
    IN  IF Success(res.ok) THEN [Say(r1, MsgUpdated(name)) EXCEPT !.updated = TRUE]
        ELSE Say(r1, MsgFailedUpdate(name))

\* Mutant of Decide: behind is set whenever the refs differ, also after the
\* fast-forward.
Decide_BehindAlways(r, name, mergeOk) ==
    LET v == r.locals
    IN  IF v.success_local /\ v.success_remote /\ v.local_sha # v.remote_sha
        THEN IF v.success_base /\ v.local_sha = v.base_sha
             THEN [FastForward(r, name, mergeOk) EXCEPT !.behind = TRUE]
             ELSE [r EXCEPT !.behind = TRUE]
        ELSE r

\* Mutant of Decide: the merge base is not compared, the fast-forward is
\* attempted whenever the refs differ.
Decide_NoBaseTest(r, name, mergeOk) ==
    LET v == r.locals
    IN  IF v.success_local /\ v.success_remote /\ v.local_sha # v.remote_sha
        THEN FastForward(r, name, mergeOk)
        ELSE r

\* Mutant of Decide: the refs are not compared for equality.
Decide_NoEqualityTest(r, name, mergeOk) ==
    LET v == r.locals
    IN  IF v.success_local /\ v.success_remote
        THEN IF v.success_base /\ v.local_sha = v.base_sha
             THEN FastForward(r, name, mergeOk)
             ELSE [r EXCEPT !.behind = TRUE]
        ELSE r

\* The decision on local_sha, remote_sha and base_sha.
Decide(r, name, mergeOk) ==
    LET v == r.locals
    IN  IF v.success_local /\ v.success_remote /\ v.local_sha # v.remote_sha
        THEN IF v.success_base /\ v.local_sha = v.base_sha
             THEN FastForward(r, name, mergeOk)
             ELSE [r EXCEPT !.behind = TRUE]
        ELSE r

\* Fast-forward evaluator: the three queries, then the decision.
EvaluateFastForward(r, name, mergeOk) ==
    LET l == GitRevParseHead(r.clone)
        u == GitRevParseUpstream(r.clone)
        b == GitMergeBase(r.clone)
        r1 == Ran(Ran(Ran(r, <<"rev-parse", "@">>, l.ok),
                      <<"rev-parse", "@{u}">>, u.ok),
                  <<"merge-base", "@", "@{u}">>, b.ok)
        r2 == [r1 EXCEPT !.locals.evaluated = TRUE,
                         !.locals.success_local = Success(l.ok),
                         !.locals.local_sha = l.out,
                         !.locals.success_remote = Success(u.ok),
                         !.locals.remote_sha = u.out,
                         !.locals.success_base = Success(b.ok),
                         !.locals.base_sha = b.out]
    IN  Decide(r2, name, mergeOk)

\* Mutant of UpdatePath: the fetch comes last, after the evaluation.
UpdatePath_FetchLast(c, srv, name, branch, fetchOk, checkoutOk, mergeOk) ==
    FetchRemote(
        EvaluateFastForward(
            ReconcileBranch(ResolveRemote(Say(Enter(c), MsgFetching(name))),
                            name, branch, checkoutOk),
            name, mergeOk),
        srv, fetchOk)

\* The branch of initialize_repository for an existing .git directory.
UpdatePath(c, srv, name, branch, fetchOk, checkoutOk, mergeOk) ==
    EvaluateFastForward(
        ReconcileBranch(
            FetchRemote(ResolveRemote(Say(Enter(c), MsgFetching(name))), srv, fetchOk),
            name, branch, checkoutOk),
        name, mergeOk)

\* Mutant of CloneCheckout: the desired branch is never checked out.
CloneCheckout_Skip(r, branch, checkoutOk) ==
    LET cur == GitCurrentBranch(r.clone)
    IN  [Ran(r, <<"rev-parse", "--abbrev-ref", "HEAD">>, cur.ok)
           EXCEPT !.locals.branch_read = Success(cur.ok),
                  !.locals.current_branch = cur.out]

\* After the clone: checkout of the desired branch if the read of the
\* current one returned success and its output differs.
CloneCheckout(r, branch, checkoutOk) ==
    LET cur == GitCurrentBranch(r.clone)
        success == Success(cur.ok)
        r1 == [Ran(r, <<"rev-parse", "--abbrev-ref", "HEAD">>, cur.ok)
                 EXCEPT !.locals.branch_read = success,
                        !.locals.current_branch = cur.out]
    IN  IF success /\ cur.out # branch
        THEN CheckoutExisting(r1, branch, checkoutOk)
        ELSE r1

\* remote add upstream <url>, for the repository named "core" only.
AddUpstream(r, name, addOk) ==
    IF name = "core"
    THEN LET res == GitRemoteAddUpstream(r.clone, addOk)
         IN  [Ran(r, <<"remote", "add", "upstream">>, res.ok) EXCEPT !.clone = res.clone]
    ELSE r

\* The branch of initialize_repository for a missing .git directory.
\* git clone exits zero (cloneOk) or non-zero; after a non-zero exit the
\* target directory is missing, or is there without a repository in it
\* (dirLeft: it was there before the clone).  The clone call returns
\* success either way; with the directory missing the next call of
\* run_git_command, whose working directory it is, ends the process.
ClonePath(c, srv, name, branch, cloneOk, dirLeft, checkoutOk, addOk) ==
    LET r0 == Ran(Say(Enter(c), MsgInitializing(name)), <<"clone">>, cloneOk)
        r1 == IF cloneOk THEN [r0 EXCEPT !.clone = GitClone(srv)] ELSE r0
    IN  IF Success(cloneOk)
        THEN IF ~cloneOk /\ ~dirLeft
             THEN Exit(r1)
             ELSE Say(AddUpstream(CloneCheckout(r1, branch, checkoutOk), name, addOk),
                      MsgInitialized(name))
        ELSE Say(r0, MsgFailedClone(name))

(* ------------------------- the cache directory ------------------------ *)

\* Refs of the branches in has, all at tip.
RefsAt(has, tip) == [b \in Branches |-> IF b \in has THEN tip ELSE NoCommit]

\* Clones a run can find in the cache directory: made by an earlier run
\* and since then fetched, committed to, switched or reconfigured by hand.
\* The local branches that exist are at one tip, the remote-tracking refs
\* at another; origin is always configured.
ExistingClones ==
    { [exists |-> TRUE, head |-> h,
       detachedAt |-> IF h = Detached THEN l ELSE NoCommit,
       heads |-> RefsAt(lh, l),
       track |-> [b \in Branches |-> IF b \in lh THEN t ELSE "none"],
       hasUpstream |-> up,
       rrefs |-> [x \in Remotes |->
                    IF x = "origin" THEN RefsAt(oh, o)
                    ELSE IF up /\ uh THEN RefsAt(oh, o) ELSE NoRefs]] :
      h \in Branches \cup {Detached}, l \in Commits, lh \in SUBSET Branches,
      o \in Commits, oh \in SUBSET Branches, up \in BOOLEAN, uh \in BOOLEAN,
      t \in {"none"} \cup Remotes }

\* A branch tracks a remote that is configured.
WellFormed(c) == c.hasUpstream \/ \A b \in Branches : c.track[b] # "upstream"

\* The server always has its HEAD branch.
ServerStates ==
    { RefsAt(sh, s) : s \in Commits, sh \in {x \in SUBSET Branches : ServerHead \in x} }

NoPrev == [ran |-> FALSE, updated |-> FALSE, behind |-> FALSE, failed |-> FALSE,
           remoteChanged |-> FALSE, cloned |-> FALSE, head |-> NoCommit]

\* main() is not running: initialize_repository is called on its own.
NoMain ==
    [pc |-> "call", repos |-> <<>>, next |-> 1, calls |-> 0,
     any_updated |-> FALSE, any_behind |-> FALSE, discovered |-> FALSE]

InitCommon ==
    /\ server \in ServerStates
    /\ repo_name \in RepoNames
    /\ repo_branch \in Branches
    /\ updated = FALSE
    /\ behind = FALSE
    /\ messages = <<>>
    /\ cmds = <<>>
    /\ locals = NoLocals
    /\ runs = 0
    /\ prev = NoPrev
    /\ remoteChanged = FALSE
    /\ aborted = FALSE

Init ==
    /\ InitCommon
    /\ main = NoMain
    /\ clone \in {AbsentClone} \cup {c \in ExistingClones : WellFormed(c)}

\* The clones of Init in which every branch exists locally, on origin and
\* on the server, HEAD is on a branch and the local branches track a remote.
Settled(c, srv) ==
    c.exists =>
        /\ c.head \in Branches
        /\ \A b \in Branches : c.track[b] # "none"
        /\ \A b \in Branches :
              c.heads[b] # NoCommit /\ c.rrefs["origin"][b] # NoCommit /\ srv[b] # NoCommit

InitSeq == Init /\ Settled(clone, server) /\ (clone.exists => repo_name = "core")

\* Whether a fetch, checkout or merge of the run exited non-zero.
Failed(log) ==
    \E i \in 1..Len(log) :
        /\ log[i].args[1] \in {"fetch", "checkout", "merge"}
        /\ ~log[i].ok

\* The run was a clone run and every command of it exited zero.
CompleteClone(log) ==
    /\ Len(log) > 0 /\ log[1].args = <<"clone">>
    /\ \A i \in 1..Len(log) : log[i].ok

\* The run ends with frame r: the clone is as the run left it; the outcome
\* is r's, returned unless the run ended the process.
Outcome(r) ==
    /\ clone' = r.clone
    /\ updated' = r.updated
    /\ behind' = r.behind
    /\ messages' = r.messages
    /\ cmds' = r.cmds
    /\ locals' = r.locals
    /\ aborted' = r.exited
    /\ runs' = runs + 1

\* A run of initialize_repository called on its own.
Return(r) ==
    /\ Outcome(r)
    /\ prev' = [ran |-> runs > 0, updated |-> updated, behind |-> behind,
                failed |-> Failed(cmds), remoteChanged |-> remoteChanged,
                cloned |-> CompleteClone(cmds), head |-> HeadCommit(clone)]
    /\ remoteChanged' = FALSE
    /\ UNCHANGED <<server, repo_name, repo_branch, main>>

\* initialize_repository(repo, uni_root) with the .git directory present.
UpdateRepository ==
    /\ runs < MaxRuns
    /\ clone.exists
    /\ \E fetchOk, checkoutOk, mergeOk \in BOOLEAN :
          Return(UpdatePath(clone, server, repo_name, repo_branch,
                            fetchOk, checkoutOk, mergeOk))

\* initialize_repository(repo, uni_root) with the .git directory missing.
CloneRepository ==
    /\ runs < MaxRuns
    /\ ~clone.exists
    /\ \E cloneOk, dirLeft, checkoutOk, addOk \in BOOLEAN :
          Return(ClonePath(clone, server, repo_name, repo_branch,
                           cloneOk, dirLeft, checkoutOk, addOk))

\* Between two runs somebody pushes to, force-pushes or deletes a branch of
\* the server.
RemoteChange ==
    /\ 0 < runs /\ runs < MaxRuns
    /\ ~remoteChanged
    /\ \E b \in Branches, c \in CommitOrNone :
          /\ c # server[b]
          /\ b = ServerHead => c # NoCommit
          /\ server' = [server EXCEPT ![b] = c]
    /\ remoteChanged' = TRUE
    /\ UNCHANGED <<clone, repo_name, repo_branch, updated, behind, messages,
                   cmds, locals, runs, prev, aborted, main>>

Next == UpdateRepository \/ CloneRepository \/ RemoteChange

\* Successive runs on the same cache directory.
Spec == InitSeq /\ [][Next]_vars

\* One run of the driver on whatever the cache directory holds.
UpdateOnce == runs = 0 /\ UpdateRepository

CloneOnce == runs = 0 /\ CloneRepository

NextOnce == UpdateOnce \/ CloneOnce

SpecOnce == Init /\ [][NextOnce]_vars

(* -------------------------------- main -------------------------------- *)

\* SKILL_REPOS: the names of the declared repositories, in order.
DeclaredRepos ==
    {<<>>} \cup {<<n>> : n \in RepoNames}
        \cup {p \in RepoNames \X RepoNames : p[1] # p[2]}

\* any(repo['name'] == 'core' for repo in SKILL_REPOS)
HasCore(repos) == \E i \in 1..Len(repos) : repos[i] = "core"

\* What main can find in the cache directory of a declared repository:
\* nothing, or the clone an earlier session made of the remote, with the
\* remote 'upstream' added (core) or not.
MainClones(srv) ==
    {AbsentClone, GitClone(srv), [GitClone(srv) EXCEPT !.hasUpstream = TRUE]}

\* main() starts: the branch of every repository is the configured one.
InitMain ==
    /\ InitCommon
    /\ clone = AbsentClone
    /\ \E repos \in DeclaredRepos : main = [NoMain EXCEPT !.pc = "validate", !.repos = repos]

\* Mutant of MainValidate: the list of repositories is not validated.
MainValidate_Skip ==
    /\ main.pc = "validate"
    /\ main' = [main EXCEPT !.pc = "repos"]
    /\ UNCHANGED <<server, clone, repo_name, repo_branch, updated, behind, messages,
                   cmds, locals, runs, prev, remoteChanged, aborted>>

\* The validation: sys.exit(1) unless a repository is named "core".
MainValidate ==
    /\ main.pc = "validate"
    /\ main' = [main EXCEPT !.pc = IF HasCore(main.repos) THEN "repos" ELSE "exit1"]
    /\ UNCHANGED <<server, clone, repo_name, repo_branch, updated, behind, messages,
                   cmds, locals, runs, prev, remoteChanged, aborted>>

\* One iteration of the loop over SKILL_REPOS: initialize_repository on the
\* next repository, whose cache directory and remote are in any state; the
\* flags are gathered, unless the call ended the process.
MainInitializeRepository ==
    /\ main.pc = "repos"
    /\ main.next <= Len(main.repos)
    /\ \E srv \in ServerStates :
       \E c \in MainClones(srv) :
       \E ok1, ok2, ok3, dirLeft \in BOOLEAN :
          LET name == main.repos[main.next]
              r == IF c.exists
                   THEN UpdatePath(c, srv, name, repo_branch, ok1, ok2, ok3)
                   ELSE ClonePath(c, srv, name, repo_branch, ok1, dirLeft, ok2, ok3)
          IN  /\ Outcome(r)
              /\ server' = srv
              /\ repo_name' = name
              /\ main' = IF r.exited
                         THEN [main EXCEPT !.pc = "exit1", !.calls = @ + 1]
                         ELSE [main EXCEPT !.next = @ + 1, !.calls = @ + 1,
                                           !.any_updated = @ \/ r.updated,
                                           !.any_behind = @ \/ r.behind]
    /\ UNCHANGED <<repo_branch, prev, remoteChanged>>

\* After the loop: discover_skills, the output, sys.exit(0).
MainDiscover ==
    /\ main.pc = "repos"
    /\ main.next > Len(main.repos)
    /\ main' = [main EXCEPT !.pc = "exit0", !.discovered = TRUE]
    /\ UNCHANGED <<server, clone, repo_name, repo_branch, updated, behind, messages,
                   cmds, locals, runs, prev, remoteChanged, aborted>>

NextMain == MainValidate \/ MainInitializeRepository \/ MainDiscover

\* One execution of main().
SpecMain == InitMain /\ [][NextMain]_vars

(* ------------------------------ claims -------------------------------- *)

\* The last run issued a git command whose first argument is op.
Issued(op) == \E i \in 1..Len(cmds) : cmds[i].args[1] = op

IssuedOk(op) == \E i \in 1..Len(cmds) : cmds[i].args[1] = op /\ cmds[i].ok

IssuedFailed(op) == \E i \in 1..Len(cmds) : cmds[i].args[1] = op /\ ~cmds[i].ok

HasMsg(m) == \E i \in 1..Len(messages) : messages[i] = m

\* The last run issued git with exactly these arguments / and it exited zero.
IssuedArgs(args) == \E i \in 1..Len(cmds) : cmds[i].args = args

IssuedArgsOk(args) == \E i \in 1..Len(cmds) : cmds[i].args = args /\ cmds[i].ok

\* The last run read the current branch: rev-parse --abbrev-ref HEAD exited zero.
BranchRead == IssuedArgsOk(<<"rev-parse", "--abbrev-ref", "HEAD">>)

\* The last run took the update path / the clone path.
UpdateRun == runs > 0 /\ locals.evaluated

CloneRun == runs > 0 /\ Len(cmds) > 0 /\ cmds[1].args = <<"clone">>

\* What the evaluator of the last run saw: both rev-parse calls returned
\* success and printed a commit id, local HEAD and the upstream ref resolved.
Compared ==
    /\ UpdateRun /\ locals.success_local /\ locals.success_remote
    /\ locals.local_sha \in Commits /\ locals.remote_sha \in Commits

\* C1: no run returns updated = true together with behind = true.
C1_NeverUpdatedAndBehind == ~(updated /\ behind)

C1_Witness ==
    /\ Compared /\ locals.local_sha # locals.remote_sha
    /\ updated /\ ~behind

\* C2, as claimed: after a run that could read the current branch, the
\* clone on disk is on the desired branch or the messages hold the
\* branch-not-found warning.
C2_BranchOrWarning ==
    (runs > 0 /\ clone.exists /\ BranchRead) =>
        \/ clone.head = repo_branch
        \/ HasMsg(MsgBranchNotFound(repo_branch, repo_name))

\* C3: a run on an existing clone keeps every local branch, moves a branch
\* tip only to a descendant of it, and issues checkout -b only for a name
\* that has no local branch.
C3_NoLocalStateLost ==
    [][(clone.exists /\ runs' = runs + 1) =>
         /\ \A b \in Branches :
               clone.heads[b] # NoCommit => IsAncestor(clone.heads[b], clone'.heads[b])
         /\ \A i \in 1..Len(cmds') :
               (cmds'[i].args[1] = "checkout" /\ cmds'[i].args[2] = "-b")
                  => clone.heads[cmds'[i].args[3]] = NoCommit]_vars

C3_Witness ==
    /\ UpdateRun
    /\ IssuedOk("checkout") /\ clone.head = repo_branch
    /\ IssuedOk("merge") /\ HeadCommit(clone) = locals.remote_sha
    /\ \A b \in Branches : clone.heads[b] # NoCommit

\* The evaluator saw a local HEAD that is a strict ancestor of the upstream ref.
FastForwardable ==
    /\ Compared
    /\ locals.local_sha # locals.remote_sha
    /\ IsAncestor(locals.local_sha, locals.remote_sha)

\* C4, as claimed: whenever local HEAD is a strict ancestor of the tracked
\* upstream ref, the run ends with local HEAD at the upstream ref and
\* updated = true.
C4_FastForwardAlwaysDone ==
    FastForwardable => (HeadCommit(clone) = locals.remote_sha /\ updated)

\* C4, amended: the fast-forward is attempted and behind = false; when
\* merge --ff-only exits zero local HEAD is the upstream ref and
\* updated = true.
C4_FastForwardIfMergeSucceeds ==
    FastForwardable =>
        /\ Issued("merge")
        /\ IssuedOk("merge") => (HeadCommit(clone) = locals.remote_sha /\ updated)
        /\ ~behind

C4_Witness ==
    /\ FastForwardable
    /\ IssuedOk("merge")
    /\ HeadCommit(clone) = locals.remote_sha
    /\ HasMsg(MsgUpdated(repo_name))

\* The evaluator saw a local HEAD that differs from the upstream ref and
\* from their merge base (also when there is no merge base).
Diverged ==
    /\ Compared
    /\ locals.local_sha # locals.remote_sha
    /\ MergeBase(locals.local_sha, locals.remote_sha) # locals.local_sha

\* C5: when the merge base differs from local HEAD the run leaves local
\* HEAD where it is, issues no merge, appends no update message and
\* returns behind = true, updated = false.
C5_DivergedOnlyFlagged ==
    Diverged =>
        /\ HeadCommit(clone) = locals.local_sha
        /\ ~Issued("merge")
        /\ ~HasMsg(MsgUpdating(repo_name))
        /\ ~HasMsg(MsgUpdated(repo_name))
        /\ ~HasMsg(MsgFailedUpdate(repo_name))
        /\ behind /\ ~updated

C5_Witness ==
    /\ Diverged
    /\ MergeBase(locals.local_sha, locals.remote_sha)
          \notin {NoCommit, locals.local_sha, locals.remote_sha}
    /\ behind

\* C6: when local HEAD equals the upstream ref the run returns
\* updated = false and behind = false, issues no merge and leaves HEAD.
C6_UpToDateNoOp ==
    (Compared /\ locals.local_sha = locals.remote_sha) =>
        /\ ~updated /\ ~behind
        /\ ~Issued("merge")
        /\ HeadCommit(clone) = locals.local_sha

C6_Witness ==
    /\ Compared /\ locals.local_sha = locals.remote_sha
    /\ IssuedOk("fetch")
    /\ ~updated /\ ~behind

\* C7, as claimed: the second of two runs with no change of the server in
\* between returns updated = false.
C7_SecondRunNeverUpdates ==
    (runs >= 2 /\ ~prev.remoteChanged) => ~updated

\* C7, amended: the second of two runs with no change of the server in
\* between returns updated = false, provided no fetch, checkout or merge
\* of the first run exited non-zero.
C7_SecondRunAfterCleanRun ==
    (runs >= 2 /\ ~prev.remoteChanged /\ ~prev.failed) => ~updated

C7_Witness ==
    /\ runs >= 2 /\ ~prev.remoteChanged /\ ~prev.failed
    /\ prev.updated
    /\ UpdateRun /\ ~updated

\* C8, as claimed: when the desired branch is neither a local branch nor a
\* remote-tracking branch of any remote, a run that could read the current
\* branch leaves the clone on it and its messages hold the warning naming
\* the desired branch.
C8_MissingBranchWarned ==
    (/\ runs > 0 /\ clone.exists /\ BranchRead
     /\ clone.heads[repo_branch] = NoCommit
     /\ \A r \in Remotes : clone.rrefs[r][repo_branch] = NoCommit)
        => /\ clone.head = locals.current_branch
           /\ HasMsg(MsgBranchNotFound(repo_branch, repo_name))

\* The clone path with a successful clone.
Cloned == CloneRun /\ cmds[1].ok

\* The part of C9 that holds of every successful clone.
C9_Rest ==
    /\ ~updated /\ ~behind
    /\ HasMsg(MsgInitialized(repo_name))
    /\ ~Issued("fetch") /\ ~Issued("merge-base") /\ ~Issued("merge")

\* C9, as claimed: a successful clone ends on the desired branch.
C9_CloneEndsOnBranch ==
    Cloned => (clone.head = repo_branch /\ C9_Rest)

\* C9, amended: a successful clone ends on the desired branch when that is
\* the branch the clone starts on or the checkout of it exits zero, and on
\* the branch the clone started on when that checkout exits non-zero.
C9_CloneEndsOnBranchIfCheckout ==
    Cloned =>
        /\ ~IssuedFailed("checkout") => clone.head = repo_branch
        /\ IssuedFailed("checkout") => clone.head = locals.current_branch
        /\ C9_Rest

C9_Witness ==
    /\ Cloned
    /\ IssuedOk("checkout")
    /\ clone.head = repo_branch
    /\ clone.hasUpstream

\* C10, as claimed: a run whose clone exits non-zero records the
\* 'Failed to clone' message, issues no other git command and returns
\* updated = false and behind = false.
C10_FailedCloneStops ==
    (CloneRun /\ ~cmds[1].ok) =>
        /\ HasMsg(MsgFailedClone(repo_name))
        /\ Len(cmds) = 1
        /\ ~aborted /\ ~updated /\ ~behind

\* The messages of the last run hold a warning or failure line.
HasFailureLine ==
    \/ HasMsg(MsgFailedClone(repo_name))
    \/ HasMsg(MsgFailedUpdate(repo_name))
    \/ HasMsg(MsgBranchNotFound(repo_branch, repo_name))

\* C11, as claimed: a run in which a clone, fetch, checkout or merge
\* exited non-zero returns, and its messages hold a warning or failure
\* line.  Stated for the clone runs and for the update runs that could
\* read the current branch.
C11_FailureRecorded ==
    (runs > 0 /\ (UpdateRun => BranchRead)
     /\ \E op \in {"clone", "fetch", "checkout", "merge"} : IssuedFailed(op))
        => (~aborted /\ HasFailureLine)

\* C12: when no declared repository is named "core", main ends with exit
\* code 1 right after the validation: initialize_repository has not been
\* called, no git command has been issued, discovery has not run.
C12_NoCoreAborts ==
    (~HasCore(main.repos) /\ main.pc # "validate") =>
        /\ main.pc = "exit1"
        /\ main.calls = 0 /\ runs = 0 /\ cmds = <<>>
        /\ ~main.discovered

C12_Witness ==
    /\ ~HasCore(main.repos) /\ Len(main.repos) > 0
    /\ main.pc = "exit1"

\* Each of clone, fetch and merge was issued at most once by the last run,
\* and so was checkout.
AtMostOnce(op) ==
    \A i, j \in 1..Len(cmds) :
        (cmds[i].args[1] = op /\ cmds[j].args[1] = op) => i = j

\* C13, as claimed: every run, whatever git answers, returns an outcome
\* (no failure ends the processing), having issued each of clone, fetch,
\* checkout and merge at most once.
C13_AlwaysReady ==
    runs > 0 =>
        /\ ~aborted
        /\ \A op \in {"clone", "fetch", "checkout", "merge"} : AtMostOnce(op)

\* C14, as claimed: when the evaluator saw local HEAD a strict ancestor of
\* the upstream ref and merge --ff-only exits non-zero, the run records
\* 'Failed to update', returns updated = false and behind = false and
\* issues no second merge.
C14_FailedMergeReported ==
    (FastForwardable /\ IssuedFailed("merge")) =>
        /\ HasMsg(MsgFailedUpdate(repo_name))
        /\ ~updated /\ ~behind
        /\ AtMostOnce("merge")

\* The position in the log of the first command with these arguments.
Position(args) ==
    CHOOSE i \in 1..Len(cmds) :
        cmds[i].args = args /\ \A j \in 1..(i - 1) : cmds[j].args # args

\* C15, as claimed: a run on an existing clone resolves the remote to
\* 'upstream' when remote get-url upstream exits zero and to 'origin' when
\* it does not, then fetches that remote once, then reads the current
\* branch, then evaluates; also when the fetch exits non-zero.  Stated
\* for the runs that could read the current branch.
C15_UpdateOrder ==
    (runs > 0 /\ IssuedArgs(<<"remote", "get-url", "upstream">>) /\ BranchRead) =>
        /\ locals.remote_name =
              IF IssuedArgsOk(<<"remote", "get-url", "upstream">>)
              THEN "upstream" ELSE "origin"
        /\ IssuedArgs(<<"fetch", locals.remote_name>>) /\ AtMostOnce("fetch")
        /\ IssuedArgs(<<"rev-parse", "--abbrev-ref", "HEAD">>)
        /\ locals.evaluated /\ IssuedArgs(<<"rev-parse", "@">>)
        /\ Position(<<"remote", "get-url", "upstream">>)
              < Position(<<"fetch", locals.remote_name>>)
        /\ Position(<<"fetch", locals.remote_name>>)
              < Position(<<"rev-parse", "--abbrev-ref", "HEAD">>)
        /\ Position(<<"rev-parse", "--abbrev-ref", "HEAD">>)
              < Position(<<"rev-parse", "@">>)

\* C16, as claimed: when rev-parse @{u} resolves to no commit (local
\* HEAD does), the run issues no merge, leaves local HEAD, appends no
\* evaluator message and returns updated = false and behind = false.
C16_UnresolvedSkipped ==
    (UpdateRun /\ locals.local_sha \in Commits /\ locals.remote_sha \notin Commits) =>
        /\ ~Issued("merge")
        /\ ~HasMsg(MsgUpdating(repo_name))
        /\ ~HasMsg(MsgUpdated(repo_name))
        /\ ~HasMsg(MsgFailedUpdate(repo_name))
        /\ ~updated /\ ~behind

\* The last run issued checkout -b.
IssuedCheckoutNew ==
    \E i \in 1..Len(cmds) : cmds[i].args[1] = "checkout" /\ cmds[i].args[2] = "-b"

\* C17, as claimed: no checkout when the current branch is the desired one
\* or cannot be read; else a plain checkout iff the local branch exists;
\* else checkout -b iff the remote-tracking ref of the resolved remote
\* exists; else the warning; at most one checkout.  Stated for the runs
\* that could read the current branch.
C17_ReconcilerOrder ==
    (UpdateRun /\ BranchRead) =>
        LET switch == locals.current_branch # repo_branch
            local == IssuedArgsOk(<<"show-ref", "refs/heads", repo_branch>>)
            remote == clone.rrefs[locals.remote_name][repo_branch] # NoCommit
        IN  /\ ~switch => ~Issued("checkout")
            /\ switch =>
                  /\ IssuedArgs(<<"checkout", repo_branch>>) <=> local
                  /\ IssuedCheckoutNew <=> (~local /\ remote)
                  /\ HasMsg(MsgBranchNotFound(repo_branch, repo_name))
                        <=> (~local /\ ~remote)
            /\ AtMostOnce("checkout")

\* Every command the last run issued exited zero.
AllOk(log) == \A i \in 1..Len(log) : log[i].ok

\* C18, as claimed: the "core" repository was cloned by a run whose commands
\* all exited zero, the desired branch of the remote then advanced, and
\* the next run, whose commands all exit zero, fast-forwards local HEAD to
\* the new commit and returns updated = true.
C18_UpdateAfterClone ==
    (/\ runs = 2 /\ repo_name = "core"
     /\ prev.cloned /\ prev.remoteChanged
     /\ prev.head # server[repo_branch] /\ IsAncestor(prev.head, server[repo_branch])
     /\ UpdateRun /\ AllOk(cmds))
        => (updated /\ HeadCommit(clone) = server[repo_branch])

\* C19, as claimed: a run that returns updated = true or behind = true
\* leaves the clone on the desired branch.  Stated for the runs whose
\* evaluator resolved both refs.
C19_FlagsOfDesiredBranch ==
    (Compared /\ ~aborted /\ (updated \/ behind)) => clone.head = repo_branch

\* C20, as claimed: behind = true only when the upstream ref has a commit
\* that is not reachable from local HEAD.  Stated for the runs whose
\* evaluator resolved both refs.
C20_BehindMeansBehind ==
    (Compared /\ behind) => ~IsAncestor(locals.remote_sha, HeadCommit(clone))

====
